---------------------------- MODULE Spec2Model ----------------------------
(***************************************************************************)
(* Two parts of the repository are modelled.                               *)
(*                                                                         *)
(*  1. The raw buffer operations of the AMDGPU dialect (AMDGPU.td):        *)
(*     raw_buffer_load, raw_buffer_store and raw_buffer_atomic_fadd.  The  *)
(*     operand and result type constraints and the AllElementTypesMatch    *)
(*     trait are the declarations of the .td file; the buffer resource     *)
(*     (V#) and the intrinsic arguments are built as the description of    *)
(*     raw_buffer_load states.  The verifier's index-count rule, the       *)
(*     capacity of the num-records field and the states a lowering goes    *)
(*     through are not in the .td file and follow the specification.       *)
(*                                                                         *)
(*  2. std::__set_intersection of libc++ (set_intersection.h), one action  *)
(*     per branch of its loop.                                             *)
(***************************************************************************)
EXTENDS Integers, Sequences, FiniteSets, TLC

VARIABLES
    op,             \* the operation being lowered
    chipset,        \* the target chipset (lowering context)
    hwLoadChecksSgpr, \* whether the target's loads bounds-check sgprOffset
    pc,             \* state of the lowering of op
    diag,           \* the diagnostic emitted, "none" when none
    preBoundsOffset,  \* resolved offset, in elements, checked by the hardware
    postBoundsOffset, \* resolved offset, in elements, added after the check
    desc,           \* <<>> or <<the buffer resource built>>
    instr,          \* <<>> or <<the raw instruction emitted>>
    in1, in2,       \* the two input ranges of __set_intersection
    first1, first2, \* __first1, __first2 (positions; Len + 1 is the end)
    out,            \* what was written through __result
    siPc,           \* "idle", "loop" or "done"
    ret             \* <<>> or <<the __set_intersection_result returned>>

lowerVars == <<op, chipset, hwLoadChecksSgpr, pc, diag, preBoundsOffset,
               postBoundsOffset, desc, instr>>
siVars == <<in1, in2, first1, first2, out, siPc, ret>>
vars == <<lowerVars, siVars>>

---------------------------------------------------------------------------
(* Bounds of the model. *)

\* The largest dimension size of a memref; the others are derived from it.
MaxDim == 8
\* The largest index operand.
MaxIndex == 7
\* The value of a present indexOffset attribute.
MaxIndexOffset == 2
\* The value of a present sgprOffset operand.
MaxSgprOffset == 3
\* The non-zero offset of a memref type.
MaxMemrefOffset == 2
\* The longest input range of __set_intersection.
MaxLen == 3
\* The largest key in an input range.
MaxKey == 3

---------------------------------------------------------------------------
(* Types of the dialect. *)

\* The scalar types a value or memref element is drawn from; f64 stands for
\* the types outside every constraint of the three operations.
ElemKinds == {"bf16", "f16", "f32", "i32", "i8", "f64"}

\* lanes = 0 is a scalar; lanes = n > 0 is vector<n x elem>.
LaneCounts == {0, 1, 2, 3, 4, 8, 16}

ValueTypes == [elem : ElemKinds, lanes : LaneCounts]

OpKinds == {"Load", "Store", "AtomicFAdd"}

Chipsets == {"MI", "RDNA"}

\* VectorOfLengthAndType<lengths, elems>
VectorOfLengthAndType(lengths, elems) ==
    {t \in ValueTypes : t.lanes \in lengths /\ t.elem \in elems}

\* faulty variant: the i8 vectors lose the 16-lane form and the f32 vectors gain 8
LoadStoreTypesNarrow ==
    {t \in ValueTypes : t.lanes = 0 /\ t.elem \in {"bf16", "f16", "f32", "i32", "i8"}}
      \cup VectorOfLengthAndType({2, 4, 8}, {"f32", "i32"})
      \cup VectorOfLengthAndType({2, 4, 8}, {"f16", "bf16"})
      \cup VectorOfLengthAndType({2, 4, 8}, {"i8"})

\* AnyTypeOf<[BF16, F16, F32, I32, I8, VectorOfLengthAndType<...>, ...]>
LoadStoreTypes ==
    {t \in ValueTypes : t.lanes = 0 /\ t.elem \in {"bf16", "f16", "f32", "i32", "i8"}}
      \cup VectorOfLengthAndType({2, 4}, {"f32", "i32"})
      \cup VectorOfLengthAndType({2, 4, 8}, {"f16", "bf16"})
      \cup VectorOfLengthAndType({2, 4, 8, 16}, {"i8"})

\* F32:$value
AtomicFaddTypes == {t \in ValueTypes : t.lanes = 0 /\ t.elem = "f32"}

ValueTypeAllowed(kind, t) ==
    IF kind = "AtomicFAdd" THEN t \in AtomicFaddTypes ELSE t \in LoadStoreTypes

\* sizeof(elementType): the width the type's name states, in bytes
ElementByteSize(e) ==
    CASE e = "i8" -> 1
      [] e \in {"bf16", "f16"} -> 2
      [] e \in {"f32", "i32"} -> 4
      [] e = "f64" -> 8

\* faulty variant: types of the same width are taken to match (f32 with i32)
SameWidthMatch(t, m) == ElementByteSize(t.elem) = ElementByteSize(m.elem)

\* AllElementTypesMatch<["value", "memref"]>: the element type of the value
\* (of a vector, its lanes' type) is the memref's element type.
AllElementTypesMatch(t, m) == t.elem = m.elem

---------------------------------------------------------------------------
(* Memory references and operations. *)

HalfDim == MaxDim \div 2

\* sizes and strides (in elements) of the memrefs of the model: a contiguous
\* and a strided vector, a row-major matrix, a column-major one and one with
\* padded rows.
Layouts ==
    {<<<<MaxDim>>, <<1>>>>,
     <<<<HalfDim>>, <<2>>>>,
     <<<<2, HalfDim>>, <<HalfDim, 1>>>>,
     <<<<2, HalfDim>>, <<1, 2>>>>,
     <<<<HalfDim, HalfDim>>, <<MaxDim, 1>>>>}

\* the base addresses of the model
Bases == {4096, 8192}

MemRefs(e, bases) ==
    {[elem |-> e, sizes |-> l[1], strides |-> l[2], offset |-> f,
      dynamic |-> d, base |-> b] :
        l \in Layouts, f \in {0, MaxMemrefOffset}, d \in BOOLEAN, b \in bases}

Rank(m) == Len(m.sizes)

\* Variadic<I32>:$indices: no index, or n of them (up to one more than the
\* rank), all zero or MaxIndex, MaxIndex - 1, ...
IndexLists(rank) ==
    {<<>>} \cup UNION {{[d \in 1..n |-> 0], [d \in 1..n |-> MaxIndex + 1 - d]} :
                        n \in 1..(rank + 1)}

\* OptionalAttr / Optional: <<>> when absent, <<v>> when present
Optional(v) == {<<>>, <<v>>}

\* The operations whose types and base address are varied, over one shape.
TypeOps ==
    {[kind |-> k, valueType |-> t,
      memref |-> [elem |-> e, sizes |-> <<MaxDim>>, strides |-> <<1>>,
                  offset |-> 0, dynamic |-> FALSE, base |-> b],
      indices |-> <<0>>, boundsCheck |-> TRUE,
      indexOffset |-> <<>>, sgprOffset |-> <<>>] :
        k \in OpKinds, t \in ValueTypes, e \in ElemKinds, b \in Bases}

\* The well-typed forms whose memref, indices and offsets are varied.
TypedForms ==
    {<<"Load", [elem |-> "f32", lanes |-> 0]>>,
     <<"Load", [elem |-> "f32", lanes |-> 2]>>,
     <<"Store", [elem |-> "i8", lanes |-> 16]>>,
     <<"AtomicFAdd", [elem |-> "f32", lanes |-> 0]>>}

ShapeOps ==
    UNION {
      {[kind |-> fm[1], valueType |-> fm[2], memref |-> fm[3],
        indices |-> ix, boundsCheck |-> bc,
        indexOffset |-> io, sgprOffset |-> so] :
          ix \in IndexLists(Rank(fm[3])), bc \in BOOLEAN,
          io \in Optional(MaxIndexOffset), so \in Optional(MaxSgprOffset)} :
      fm \in UNION {{<<f[1], f[2], m>> : m \in MemRefs(f[2].elem, {4096})} :
                     f \in TypedForms}}

\* The operations a lowering starts from.
Ops == TypeOps \cup ShapeOps

---------------------------------------------------------------------------
(* The verifier. *)

\* The rule an operation violates, "none" when it verifies.
VerifyDiag(o) ==
    IF ~ValueTypeAllowed(o.kind, o.valueType) THEN "value type not allowed"
    ELSE IF ~AllElementTypesMatch(o.valueType, o.memref)
      THEN "element types differ"
    ELSE IF Len(o.indices) > Rank(o.memref) THEN "more indices than rank"
    ELSE "none"

---------------------------------------------------------------------------
(* The index and the offsets. *)

RECURSIVE LinearIndex(_, _, _)
\* sum of indices[d] * strides[d] over the first n dimensions, as memref.load
\* linearises its indices
LinearIndex(indices, strides, n) ==
    IF n = 0 THEN 0
    ELSE LinearIndex(indices, strides, n - 1) + indices[n] * strides[n]

\* an absent optional offset contributes nothing
OffsetOr0(opt) == IF opt = <<>> THEN 0 ELSE opt[1]

\* the part of the index the hardware bounds-checks, in elements
PreBoundsOffset(o) ==
    LinearIndex(o.indices, o.memref.strides, Len(o.indices))
      + OffsetOr0(o.indexOffset)

\* faulty variant: the memref type's offset is dropped
SgprOnly(o) == OffsetOr0(o.sgprOffset)

\* sgprOffset, which includes the offset of the memref type, in elements
PostBoundsOffset(o) == OffsetOr0(o.sgprOffset) + o.memref.offset

---------------------------------------------------------------------------
(* The buffer resource (V#). *)

RECURSIVE MaxSizeStride(_, _, _)
\* max over the first n dimensions d of size(d) * stride(d)
MaxSizeStride(sizes, strides, n) ==
    IF n = 0 THEN 0
    ELSE LET rest == MaxSizeStride(sizes, strides, n - 1)
             this == sizes[n] * strides[n]
         IN  IF this > rest THEN this ELSE rest

\* faulty variant: the extent of the outermost dimension alone
OutermostExtent(m) == m.sizes[1] * m.strides[1] * ElementByteSize(m.elem)

\* the size computed at runtime for a dynamically-shaped memref, in bytes
RuntimeByteExtent(m) ==
    MaxSizeStride(m.sizes, m.strides, Rank(m)) * ElementByteSize(m.elem)

\* the size of a statically-shaped memref, in bytes: the same formula on the
\* sizes and strides of its type
StaticByteExtent(m) ==
    MaxSizeStride(m.sizes, m.strides, Rank(m)) * ElementByteSize(m.elem)

TotalByteExtent(m) ==
    IF m.dynamic THEN RuntimeByteExtent(m) ELSE StaticByteExtent(m)

\* The largest value of the num-records field.  The field of the hardware is
\* 32 bits wide; the model's is 7 bits wide, so that the memrefs of the model
\* reach past it.
NumRecordsMax == 127

\* faulty variant: the extent is never found too large
NeverOverflows(m) == FALSE

\* the extent does not fit the num-records field
DescriptorOverflows(m) == TotalByteExtent(m) > NumRecordsMax

\* faulty variant: bounds checks are disabled whenever boundsCheck is false
OobSelectAnyChipset(boundsCheck, cs) == IF ~boundsCheck THEN 2 ELSE 3

\* OOB_SELECT is 2 when boundsCheck is false and the chipset is RDNA, else 3
OobSelect(boundsCheck, cs) ==
    IF ~boundsCheck /\ cs = "RDNA" THEN 2 ELSE 3

\* faulty variant: the index enable bit follows boundsCheck
BuildDescriptorIndexed(m, boundsCheck, cs) ==
    [base |-> m.base,
     stride |-> 0,
     numRecords |-> TotalByteExtent(m) % (NumRecordsMax + 1),
     offsetEnable |-> TRUE,
     indexEnable |-> boundsCheck,
     tidEnable |-> FALSE,
     oobSelect |-> OobSelect(boundsCheck, cs),
     cacheCoherency |-> 0]

\* the buffer resource of a memref; num-records is stored in its field's width
BuildDescriptor(m, boundsCheck, cs) ==
    [base |-> m.base,
     stride |-> 0,
     numRecords |-> TotalByteExtent(m) % (NumRecordsMax + 1),
     offsetEnable |-> TRUE,
     indexEnable |-> FALSE,
     tidEnable |-> FALSE,
     oobSelect |-> OobSelect(boundsCheck, cs),
     cacheCoherency |-> 0]

\* faulty variant: the offsets are handed over in elements
RawInstructionUnscaled(o, rsrc, pre, post) ==
    [hasValue |-> o.kind # "Load", rsrc |-> rsrc,
     voffset |-> pre, soffset |-> post, aux |-> 0]

\* the intrinsic's arguments: (value?, rsrc, voffset, soffset, aux), the
\* offsets converted from elements to bytes
RawInstruction(o, rsrc, pre, post) ==
    [hasValue |-> o.kind # "Load",
     rsrc |-> rsrc,
     voffset |-> pre * ElementByteSize(o.memref.elem),
     soffset |-> post * ElementByteSize(o.memref.elem),
     aux |-> 0]

---------------------------------------------------------------------------
(* What the hardware does with the instruction. *)

\* faulty variant: every operation's sgprOffset is checked where a load's is
SgprCheckedAlways(kind) == hwLoadChecksSgpr

\* whether sgprOffset is part of what the hardware bounds-checks: for a load
\* it may or may not be, for a store or an atomic it is added after the check
SgprChecked(kind) == kind = "Load" /\ hwLoadChecksSgpr

\* the byte offset the hardware compares with num-records
CheckedOffset(kind, i) ==
    i.voffset + (IF SgprChecked(kind) THEN i.soffset ELSE 0)

\* whether the access is treated as in bounds
TreatedInBounds(kind, i) ==
    i.rsrc.oobSelect = 2 \/ CheckedOffset(kind, i) < i.rsrc.numRecords

---------------------------------------------------------------------------
(* Lowering one operation. *)

IdleOp == CHOOSE o \in TypeOps : TRUE

SiIdle ==
    /\ in1 = <<>> /\ in2 = <<>> /\ first1 = 1 /\ first2 = 1
    /\ out = <<>> /\ siPc = "idle" /\ ret = <<>>

Init ==
    /\ op \in Ops
    /\ chipset \in Chipsets
    /\ hwLoadChecksSgpr \in BOOLEAN
    /\ pc = "Unverified"
    /\ diag = "none"
    /\ preBoundsOffset = 0
    /\ postBoundsOffset = 0
    /\ desc = <<>>
    /\ instr = <<>>
    /\ SiIdle

\* Unverified -> Verified
VerifyAccept ==
    /\ pc = "Unverified"
    /\ VerifyDiag(op) = "none"
    /\ pc' = "Verified"
    /\ UNCHANGED <<op, chipset, hwLoadChecksSgpr, diag, preBoundsOffset,
                   postBoundsOffset, desc, instr, siVars>>

\* faulty variant: the resource is built before the verifier's verdict is acted on
VerifyRejectLate ==
    /\ pc = "Unverified"
    /\ VerifyDiag(op) # "none"
    /\ pc' = "Rejected"
    /\ diag' = VerifyDiag(op)
    /\ desc' = <<BuildDescriptor(op.memref, op.boundsCheck, chipset)>>
    /\ UNCHANGED <<op, chipset, hwLoadChecksSgpr, preBoundsOffset,
                   postBoundsOffset, instr, siVars>>

\* Unverified -> Rejected
VerifyReject ==
    /\ pc = "Unverified"
    /\ VerifyDiag(op) # "none"
    /\ pc' = "Rejected"
    /\ diag' = VerifyDiag(op)
    /\ UNCHANGED <<op, chipset, hwLoadChecksSgpr, preBoundsOffset,
                   postBoundsOffset, desc, instr, siVars>>

\* Verified -> Failed
DescriptorOverflow ==
    /\ pc = "Verified"
    /\ DescriptorOverflows(op.memref)
    /\ pc' = "Failed"
    /\ diag' = "descriptor overflow"
    /\ UNCHANGED <<op, chipset, hwLoadChecksSgpr, preBoundsOffset,
                   postBoundsOffset, desc, instr, siVars>>

\* Verified -> Resolved
Resolve ==
    /\ pc = "Verified"
    /\ ~DescriptorOverflows(op.memref)
    /\ preBoundsOffset' = PreBoundsOffset(op)
    /\ postBoundsOffset' = PostBoundsOffset(op)
    /\ pc' = "Resolved"
    /\ UNCHANGED <<op, chipset, hwLoadChecksSgpr, diag, desc, instr, siVars>>

\* Resolved -> Lowered
Lower ==
    /\ pc = "Resolved"
    /\ LET rsrc == BuildDescriptor(op.memref, op.boundsCheck, chipset)
       IN  /\ desc' = <<rsrc>>
           /\ instr' = <<RawInstruction(op, rsrc, preBoundsOffset,
                                        postBoundsOffset)>>
    /\ pc' = "Lowered"
    /\ UNCHANGED <<op, chipset, hwLoadChecksSgpr, diag, preBoundsOffset,
                   postBoundsOffset, siVars>>

Next == VerifyAccept \/ VerifyReject \/ DescriptorOverflow \/ Resolve \/ Lower

\* Lowering is a synchronous computation: a step that can be taken is taken.
Spec == Init /\ [][Next]_vars /\ WF_vars(Next)

---------------------------------------------------------------------------
(* std::__set_intersection. *)

\* An element: its key, which the comparator reads, and the range it came
\* from, which the comparator does not see.
Elem(k, src) == [k |-> k, src |-> src]

\* the ranges of at most MaxLen keys, sorted with respect to the comparator
SortedRanges(src) ==
    UNION {{[i \in 1..n |-> Elem(ks[i], src)] :
              ks \in {x \in [1..n -> 1..MaxKey] :
                        \A i \in 1..(n - 1) : x[i] <= x[i + 1]}} :
           n \in 0..MaxLen}

\* __comp: std::__less, a strict weak order on the keys
Comp(a, b) == a.k < b.k

RECURSIVE IterNext(_, _)
\* _IterOper::next(it, last): it advanced until it equals last
IterNext(it, last) == IF it = last THEN it ELSE IterNext(it + 1, last)

Last1 == Len(in1) + 1
Last2 == Len(in2) + 1

LowerIdle ==
    /\ op = IdleOp /\ chipset = "MI" /\ hwLoadChecksSgpr = FALSE
    /\ pc = "idle" /\ diag = "none" /\ preBoundsOffset = 0
    /\ postBoundsOffset = 0 /\ desc = <<>> /\ instr = <<>>

InitSI ==
    /\ in1 \in SortedRanges(1)
    /\ in2 \in SortedRanges(2)
    /\ first1 = 1
    /\ first2 = 1
    /\ out = <<>>
    /\ siPc = "loop"
    /\ ret = <<>>
    /\ LowerIdle

\* the loop's condition
InLoop == siPc = "loop" /\ first1 # Last1 /\ first2 # Last2

\* if (__comp(*__first1, *__first2)) ++__first1;
SkipFirst ==
    /\ InLoop
    /\ Comp(in1[first1], in2[first2])
    /\ first1' = first1 + 1
    /\ UNCHANGED <<in1, in2, first2, out, siPc, ret, lowerVars>>

\* faulty variant: the matched element of the first range is not stepped over
MatchKeepFirst ==
    /\ InLoop
    /\ ~Comp(in1[first1], in2[first2])
    /\ ~Comp(in2[first2], in1[first1])
    /\ out' = Append(out, in1[first1])
    /\ first2' = first2 + 1
    /\ UNCHANGED <<in1, in2, first1, siPc, ret, lowerVars>>

\* else { if (!__comp(*__first2, *__first1)) { *__result = *__first1;
\*        ++__result; ++__first1; } ++__first2; }, the inner if taken
Match ==
    /\ InLoop
    /\ ~Comp(in1[first1], in2[first2])
    /\ ~Comp(in2[first2], in1[first1])
    /\ out' = Append(out, in1[first1])
    /\ first1' = first1 + 1
    /\ first2' = first2 + 1
    /\ UNCHANGED <<in1, in2, siPc, ret, lowerVars>>

\* the same else branch, the inner if not taken
SkipSecond ==
    /\ InLoop
    /\ ~Comp(in1[first1], in2[first2])
    /\ Comp(in2[first2], in1[first1])
    /\ first2' = first2 + 1
    /\ UNCHANGED <<in1, in2, first1, out, siPc, ret, lowerVars>>

\* return __set_intersection_result(next(first1, last1), next(first2, last2),
\*                                  result)
Return ==
    /\ siPc = "loop"
    /\ ~(first1 # Last1 /\ first2 # Last2)
    /\ ret' = <<[in1 |-> IterNext(first1, Last1),
                 in2 |-> IterNext(first2, Last2),
                 out |-> Len(out) + 1]>>
    /\ siPc' = "done"
    /\ UNCHANGED <<in1, in2, first1, first2, out, lowerVars>>

NextSI == SkipFirst \/ Match \/ SkipSecond \/ Return

\* The function runs to its return: no step of it waits for anything.
SpecSI == InitSI /\ [][NextSI]_vars /\ WF_vars(NextSI)

---------------------------------------------------------------------------
(* The claims. *)

Built == desc[1]
Emitted == instr[1]
Bytes == ElementByteSize(op.memref.elem)
SgprOperand == IF op.sgprOffset = <<>> THEN 0 ELSE op.sgprOffset[1]
IndexOffsetAttr == IF op.indexOffset = <<>> THEN 0 ELSE op.indexOffset[1]

\* max over d of size(d) * stride(d), as the greatest member of the set of
\* the products
MaxExtentElems ==
    LET products == {op.memref.sizes[d] * op.memref.strides[d] :
                       d \in 1..Len(op.memref.sizes)}
    IN  CHOOSE x \in products : \A y \in products : y <= x

RECURSIVE SumTo(_, _)
SumTo(f, n) == IF n = 0 THEN 0 ELSE f[n] + SumTo(f, n - 1)

\* the sum over the consumed dimensions of index[d] * stride[d]
IndexDotStride ==
    SumTo([d \in 1..Len(op.indices) |-> op.indices[d] * op.memref.strides[d]],
          Len(op.indices))

\* C1: the resource of every lowered operation, whatever its variant, has
\* OOB_SELECT = 2 exactly when boundsCheck is false and the chipset is RDNA,
\* and 3 in every other case; the instruction carries that resource.
C1_OobSelect ==
    pc = "Lowered" =>
      /\ Built.oobSelect \in {2, 3}
      /\ Built.oobSelect = 2 <=> (~op.boundsCheck /\ chipset = "RDNA")
      /\ Emitted.rsrc = Built

C1_Witness ==
    /\ pc = "Lowered"
    /\ op.kind = "AtomicFAdd"
    /\ ~op.boundsCheck
    /\ chipset = "RDNA"
    /\ Built.oobSelect = 2

C3_Original ==
    pc = "Lowered" =>
      /\ Emitted.voffset = (IndexDotStride + IndexOffsetAttr) * Bytes
      /\ Emitted.soffset = SgprOperand * Bytes

\* C3: the vector index is (sum of index[d] * stride[d] + indexOffset) in
\* bytes, and the scalar offset is sgprOffset plus the offset of the memref
\* type, in bytes; an absent indexOffset or sgprOffset counts as 0.
C3_Offsets ==
    pc = "Lowered" =>
      /\ Emitted.voffset = (IndexDotStride + IndexOffsetAttr) * Bytes
      /\ Emitted.soffset = (SgprOperand + op.memref.offset) * Bytes

C3_Witness ==
    /\ pc = "Lowered"
    /\ op.memref.elem = "f32"
    /\ op.memref.strides = <<1>>
    /\ op.indices = <<7>>
    /\ op.indexOffset = <<>>
    /\ op.sgprOffset = <<3>>
    /\ op.memref.offset = 2
    /\ Emitted.voffset = 28
    /\ Emitted.soffset = 20

\* the instruction the same operation yields with another sgprOffset
EmittedWithSgpr(s) ==
    LET o == [op EXCEPT !.sgprOffset = s]
    IN  RawInstruction(o, Built, PreBoundsOffset(o), PostBoundsOffset(o))

SgprAlternatives == {<<>>, <<0>>, <<MaxSgprOffset>>}

\* the bounds check reads the vector index and num-records alone, and no
\* other sgprOffset changes its outcome
SgprNotChecked ==
    /\ CheckedOffset(op.kind, Emitted) = preBoundsOffset * Bytes
    /\ \A s \in SgprAlternatives :
         TreatedInBounds(op.kind, EmittedWithSgpr(s))
           = TreatedInBounds(op.kind, Emitted)

\* C4 as stated: for all three variants sgprOffset is never part of what is
\* bounds-checked.
C4_Original == pc = "Lowered" => SgprNotChecked

\* C4: for a store and an atomic add sgprOffset is never part of what is
\* bounds-checked: it is added after the check, and changing it alone never
\* changes whether the access is treated as in bounds.  (For a load it may or
\* may not be part of the check.)
C4_SgprAfterCheck ==
    (pc = "Lowered" /\ op.kind \in {"Store", "AtomicFAdd"}) => SgprNotChecked

C4_Witness ==
    /\ pc = "Lowered"
    /\ op.kind = "Store"
    /\ op.boundsCheck
    /\ hwLoadChecksSgpr
    /\ op.sgprOffset = <<MaxSgprOffset>>
    /\ TreatedInBounds(op.kind, Emitted)
    /\ Emitted.voffset + Emitted.soffset >= Built.numRecords

\* C5: an operation whose value's element type is not the memref's element
\* type is rejected by the verifier, whatever its variant: it ends Rejected
\* with a diagnostic, and nothing is built or emitted for it.
C5_ElementTypesMatch ==
    (pc # "Unverified" /\ op.valueType.elem # op.memref.elem) =>
      /\ pc = "Rejected"
      /\ diag # "none"
      /\ desc = <<>>
      /\ instr = <<>>

C5_Witness ==
    /\ pc = "Rejected"
    /\ op.kind = "Load"
    /\ op.valueType = [elem |-> "f32", lanes |-> 0]
    /\ op.memref.elem = "i32"
    /\ diag = "element types differ"

\* the lane counts the claim lists for an element type (0: the scalar)
ListedLanes(kind, e) ==
    IF kind = "AtomicFAdd" THEN (IF e = "f32" THEN {0} ELSE {})
    ELSE CASE e \in {"f32", "i32"} -> {0, 2, 4}
           [] e \in {"f16", "bf16"} -> {0, 2, 4, 8}
           [] e = "i8" -> {0, 2, 4, 8, 16}
           [] OTHER -> {}

\* C6: the verifier accepts a value type only if it is in the variant's
\* list (load and store: scalar bf16/f16/f32/i32/i8, 2 or 4 lanes of
\* f32/i32, 2, 4 or 8 lanes of f16/bf16, 2, 4, 8 or 16 lanes of i8; atomic
\* add: scalar f32 alone); every other value type ends in a verification
\* error.
C6_ValueTypeList ==
    pc # "Unverified" =>
      /\ pc # "Rejected" =>
           op.valueType.lanes \in ListedLanes(op.kind, op.valueType.elem)
      /\ op.valueType.lanes \notin ListedLanes(op.kind, op.valueType.elem) =>
           pc = "Rejected" /\ diag # "none"

C6_Witness ==
    /\ pc = "Rejected"
    /\ op.kind = "AtomicFAdd"
    /\ op.valueType = [elem |-> "f32", lanes |-> 2]
    /\ op.memref.elem = "f32"
    /\ diag = "value type not allowed"

Terminal == {"Lowered", "Rejected", "Failed"}

AllowedTransitions ==
    {<<"Unverified", "Verified">>, <<"Verified", "Resolved">>,
     <<"Resolved", "Lowered">>, <<"Unverified", "Rejected">>,
     <<"Verified", "Failed">>}

AllowedStep == <<pc, pc'>> \in AllowedTransitions

\* C7: a lowering takes only the steps Unverified -> Verified -> Resolved ->
\* Lowered, Unverified -> Rejected and Verified -> Failed; it reaches one of
\* Lowered, Rejected and Failed, which no step leaves; and while it is
\* Rejected no resource has been built and no instruction emitted.
C7_StateMachine ==
    /\ [][AllowedStep]_pc
    /\ <>(pc \in Terminal)
    /\ [](pc = "Rejected" =>
            diag # "none" /\ desc = <<>> /\ instr = <<>>)

C7_Witness ==
    /\ pc = "Rejected"
    /\ diag = "more indices than rank"
    /\ desc = <<>>
    /\ instr = <<>>

\* C8: a verified operation fails exactly when the total byte extent does
\* not fit the num-records field; then a lowering error is reported and no
\* instruction is emitted, and the num-records of every resource built is
\* the exact extent, never a wrapped one.
C8_Overflow ==
    /\ pc \in {"Failed", "Resolved", "Lowered"} =>
         (pc = "Failed" <=> MaxExtentElems * Bytes > NumRecordsMax)
    /\ pc = "Failed" =>
         diag = "descriptor overflow" /\ desc = <<>> /\ instr = <<>>
    /\ desc # <<>> => Built.numRecords = MaxExtentElems * Bytes

C8_Witness ==
    /\ pc = "Failed"
    /\ MaxExtentElems * Bytes = NumRecordsMax + 1
    /\ instr = <<>>

\* C9: every resource built has stride 0, offset enable on, index enable
\* off, thread-id addition off, cache coherency bits 0 and the memref's base
\* address; boundsCheck and the chipset change no field but OOB_SELECT.
C9_FixedFields ==
    desc # <<>> =>
      /\ Built.stride = 0
      /\ Built.offsetEnable = TRUE
      /\ Built.indexEnable = FALSE
      /\ Built.tidEnable = FALSE
      /\ Built.cacheCoherency = 0
      /\ Built.base = op.memref.base
      /\ \A bc \in BOOLEAN, cs \in Chipsets :
           [BuildDescriptor(op.memref, bc, cs) EXCEPT !.oobSelect = 0]
             = [Built EXCEPT !.oobSelect = 0]

C9_Witness ==
    /\ pc = "Lowered"
    /\ ~op.boundsCheck
    /\ chipset = "RDNA"
    /\ op.kind = "Store"
    /\ Built.oobSelect = 2
    /\ Built.indexEnable = FALSE

Count(seq, k) == Cardinality({i \in 1..Len(seq) : seq[i].k = k})

Min(a, b) == IF a < b THEN a ELSE b

\* what __set_intersection has written and returned
IntersectionWritten ==
    /\ \A k \in 1..MaxKey : Count(out, k) = Min(Count(in1, k), Count(in2, k))
    /\ \A i \in 1..(Len(out) - 1) : out[i].k <= out[i + 1].k
    /\ \A i \in 1..Len(out) : out[i].src = 1
    /\ ret = <<[in1 |-> Len(in1) + 1, in2 |-> Len(in2) + 1,
                out |-> Len(out) + 1]>>

\* C10: on two sorted ranges __set_intersection returns, and by then it has
\* written, in sorted order, each key that occurs m times in the first range
\* and n times in the second min(m, n) times, every written element being the
\* first range's; the in1 and in2 it returns are the ends of the ranges.
C10_SetIntersection ==
    /\ <>(siPc = "done")
    /\ [](siPc = "done" => IntersectionWritten)

C10_Witness ==
    /\ siPc = "done"
    /\ first1 < Len(in1) + 1
    /\ first2 = Len(in2) + 1
    /\ Len(out) = 2
    /\ out[1].k = out[2].k
    /\ ret[1].in1 = Len(in1) + 1

====
